---------------------------- MODULE Spec2Model ----------------------------
(***************************************************************************)
(* A model of aversion.py (klmitch/aversion): the AVersion WSGI composite  *)
(* application, which selects an API version and a content type for each   *)
(* request from the URI, the Content-Type header and the Accept header.    *)
(*                                                                         *)
(* Python strings are sequences of one-character strings, so that slicing, *)
(* startswith/endswith, splitting and formatting are computed character by *)
(* character as the code computes them.  Python's None and True are the    *)
(* one-element sequences NoneVal and TrueVal, whose element is not a       *)
(* character, so they never equal a string.  A dict is a function whose    *)
(* domain is its key set.                                                  *)
(***************************************************************************)
EXTENDS Integers, Sequences, FiniteSets, TLC

(***************************************************************************)
(* Bounds of the model.                                                    *)
(***************************************************************************)
\* set_version / set_ctype calls made on one Result in the Result harness
MaxCalls == 3
\* requests served by one AVersion instance
MaxReq == 1
\* decimal places kept when a quality value is read as a number
FracDigits == 2

NoneVal == <<"None">>
TrueVal == <<"True">>
EmptyDict == [k \in {} |-> NoneVal]

(***************************************************************************)
(* Python string primitives.                                               *)
(***************************************************************************)
\* s[a:b] for 0 <= a, b given as Python (0-based, end-exclusive) indices
Slice(s, a, b) == SubSeq(s, a + 1, IF b > Len(s) THEN Len(s) ELSE b)

StartsWith(s, p) == Len(p) <= Len(s) /\ SubSeq(s, 1, Len(p)) = p

EndsWith(s, p) ==
    Len(p) <= Len(s) /\ SubSeq(s, Len(s) - Len(p) + 1, Len(s)) = p

\* s.find(c, 0, hi): the 0-based index of the first c before index hi, or -1
RECURSIVE FindFrom(_, _, _, _)
FindFrom(s, c, i, hi) ==
    IF i > Len(s) \/ i > hi THEN -1
    ELSE IF s[i] = c THEN i - 1
    ELSE FindFrom(s, c, i + 1, hi)

Find(s, c) == FindFrom(s, c, 1, Len(s))

\* s.count(c)
RECURSIVE Count(_, _)
Count(s, c) ==
    IF s = <<>> THEN 0
    ELSE (IF Head(s) = c THEN 1 ELSE 0) + Count(Tail(s), c)

Truthy(v) == v # NoneVal /\ v # <<>>

\* d[k] = v on a dict
DictSet(d, k, v) == (k :> v) @@ d

(***************************************************************************)
(* quoted_split(string, sep): the list of the fields the generator yields. *)
(* start = 0 stands for the code's start = None; i is the 1-based index of *)
(* the character being looked at.                                          *)
(***************************************************************************)
\* quoted_split taking a backslash inside quotes for an ordinary character
RECURSIVE QuotedSplitFrom_noescape(_, _, _, _, _, _)
QuotedSplitFrom_noescape(s, sep, i, start, quote, acc) ==
    IF i > Len(s)
    THEN IF start # 0 THEN Append(acc, SubSeq(s, start, Len(s))) ELSE acc
    ELSE LET c  == s[i]
             st == IF start = 0 THEN i ELSE start
         IN  IF quote
             THEN QuotedSplitFrom_noescape(s, sep, i + 1, st, c # "\"", acc)
             ELSE IF c = sep
             THEN QuotedSplitFrom_noescape(s, sep, i + 1, 0, quote,
                                           Append(acc, SubSeq(s, st, i - 1)))
             ELSE QuotedSplitFrom_noescape(s, sep, i + 1, st, c = "\"", acc)

quoted_split_noescape(string, sep) ==
    QuotedSplitFrom_noescape(string, sep, 1, 0, FALSE, <<>>)

RECURSIVE QuotedSplitFrom(_, _, _, _, _, _, _)
QuotedSplitFrom(s, sep, i, start, escape, quote, acc) ==
    IF i > Len(s)
    THEN IF start # 0 THEN Append(acc, SubSeq(s, start, Len(s))) ELSE acc
    ELSE LET c  == s[i]
             st == IF start = 0 THEN i ELSE start
         IN  IF escape
             THEN QuotedSplitFrom(s, sep, i + 1, st, FALSE, quote, acc)
             ELSE IF quote
             THEN IF c = "\\"
                  THEN QuotedSplitFrom(s, sep, i + 1, st, TRUE, quote, acc)
                  ELSE IF c = "\""
                  THEN QuotedSplitFrom(s, sep, i + 1, st, escape, FALSE, acc)
                  ELSE QuotedSplitFrom(s, sep, i + 1, st, escape, quote, acc)
             ELSE IF c = sep
             THEN QuotedSplitFrom(s, sep, i + 1, 0, escape, quote,
                                  Append(acc, SubSeq(s, st, i - 1)))
             ELSE IF c = "\""
             THEN QuotedSplitFrom(s, sep, i + 1, st, escape, TRUE, acc)
             ELSE QuotedSplitFrom(s, sep, i + 1, st, escape, quote, acc)

\* quoted_split yielding a last field even when nothing follows the last
\* separator
quoted_split_trailing(string, sep) ==
    LET fields == QuotedSplitFrom(string \o <<"a">>, sep, 1, 0, FALSE, FALSE,
                                  <<>>)
        last   == fields[Len(fields)]
    IN  IF string = <<>> THEN <<>>
        ELSE [fields EXCEPT ![Len(fields)] = SubSeq(last, 1, Len(last) - 1)]

quoted_split(string, sep) ==
    QuotedSplitFrom(string, sep, 1, 0, FALSE, FALSE, <<>>)

\* unquote(quoted)
unquote(quoted) ==
    IF Slice(quoted, 0, 1) = <<"\"">>
       /\ SubSeq(quoted, Len(quoted), Len(quoted)) = <<"\"">>
    THEN SubSeq(quoted, 2, Len(quoted) - 1)
    ELSE quoted

(***************************************************************************)
(* parse_ctype(ctype): [ctype |-> the media-type name, params |-> dict].   *)
(***************************************************************************)
\* ParsePart splitting at a leading '=' too
ParsePart_anyequal(result, part) ==
    LET equal == Find(part, "=")
    IN  IF equal >= 0 /\ FindFrom(part, "\"", 1, equal) < 0
        THEN DictSet(result, Slice(part, 0, equal),
                     unquote(SubSeq(part, equal + 2, Len(part))))
        ELSE DictSet(result, part, TrueVal)

ParsePart(result, part) ==
    LET equal == Find(part, "=")
    IN  IF equal > 0 /\ FindFrom(part, "\"", 1, equal) < 0
        THEN DictSet(result, Slice(part, 0, equal),
                     unquote(SubSeq(part, equal + 2, Len(part))))
        ELSE DictSet(result, part, TrueVal)

RECURSIVE ParseParts(_, _, _)
ParseParts(parts, i, result) ==
    IF i > Len(parts) THEN result
    ELSE ParseParts(parts, i + 1, ParsePart(result, parts[i]))

parse_ctype(ctype) ==
    LET parts == quoted_split(ctype, ";")
    IN  IF parts = <<>>
        THEN [ctype |-> <<>>, params |-> EmptyDict]
        ELSE [ctype  |-> parts[1],
              params |-> ParseParts(parts, 2,
                                    DictSet(EmptyDict, <<"_">>, parts[1]))]

\* _match_mask without its '*/*' case
_match_mask_nowildcard(mask, ctype) ==
    IF Count(mask, "*") = 0 THEN ctype = mask
    ELSE IF ~EndsWith(mask, <<"/", "*">>) THEN FALSE
    ELSE LET mask_major  == SubSeq(mask, 1, Len(mask) - 2)
             slash       == Find(ctype, "/")
             ctype_major == IF slash < 0 THEN ctype ELSE Slice(ctype, 0, slash)
         IN  ctype_major = mask_major

\* _match_mask(mask, ctype)
_match_mask(mask, ctype) ==
    IF Count(mask, "*") = 0 THEN ctype = mask
    ELSE IF mask = <<"*", "/", "*">> THEN TRUE
    ELSE IF ~EndsWith(mask, <<"/", "*">>) THEN FALSE
    ELSE LET mask_major  == SubSeq(mask, 1, Len(mask) - 2)
             slash       == Find(ctype, "/")
             ctype_major == IF slash < 0 THEN ctype ELSE Slice(ctype, 0, slash)
         IN  ctype_major = mask_major

(***************************************************************************)
(* float(x) for the quality values of the model: an optional sign, digits  *)
(* and at most one '.', with at least one digit; every other string over   *)
(* the model's alphabet is a ValueError (exponents, blanks, inf and nan    *)
(* are not in that alphabet).  The value is kept as an integer number of   *)
(* 10^-FracDigits units.  float(True) is 1.0.                              *)
(***************************************************************************)
DigitChars == <<"0", "1", "2", "3", "4", "5", "6", "7", "8", "9">>

IsDigit(c) == \E d \in 1..10 : DigitChars[d] = c

DigitVal(c) == (CHOOSE d \in 1..10 : DigitChars[d] = c) - 1

RECURSIVE Pow10(_)
Pow10(n) == IF n = 0 THEN 1 ELSE 10 * Pow10(n - 1)

Scale == Pow10(FracDigits)

RECURSIVE IntOf(_, _)
IntOf(ds, acc) ==
    IF ds = <<>> THEN acc ELSE IntOf(Tail(ds), 10 * acc + DigitVal(Head(ds)))

AllDigits(ds) == \A i \in 1..Len(ds) : IsDigit(ds[i])

FracOf(ds) ==
    IntOf([i \in 1..FracDigits |-> IF i <= Len(ds) THEN ds[i] ELSE "0"], 0)

ParseFloat(v) ==
    IF v = TrueVal THEN [ok |-> TRUE, val |-> Scale]
    ELSE LET signed == v # <<>> /\ Head(v) \in {"-", "+"}
             body   == IF signed THEN Tail(v) ELSE v
             sign   == IF signed /\ Head(v) = "-" THEN -1 ELSE 1
             dot    == Find(body, ".")
             ip     == IF dot < 0 THEN body ELSE Slice(body, 0, dot)
             fp     == IF dot < 0 THEN <<>> ELSE SubSeq(body, dot + 2, Len(body))
         IN  IF AllDigits(ip) /\ AllDigits(fp) /\ Len(ip) + Len(fp) > 0
             THEN [ok |-> TRUE, val |-> sign * (IntOf(ip, 0) * Scale + FracOf(fp))]
             ELSE [ok |-> FALSE, val |-> 0]

(***************************************************************************)
(* best_match(requested, allowed): [ctype |-> best_ctype,                  *)
(* params |-> best_params].  The record b carries the four best_* locals.  *)
(***************************************************************************)
BestInit ==
    [q |-> -1 * Scale, ctype |-> <<>>, params |-> EmptyDict,
     match |-> <<"*", "/", "*">>]

\* BestStep reading a q that does not parse as the default 1.0
BestStep_badq_default(b, ctype, ctype_mask, params) ==
    LET g == IF <<"q">> \in DOMAIN params
             THEN ParseFloat(params[<<"q">>])
             ELSE [ok |-> TRUE, val |-> Scale]
        f == IF g.ok THEN g ELSE [ok |-> TRUE, val |-> Scale]
    IN  IF f.val < b.q THEN b
        ELSE IF b.q = f.val /\ Count(b.match, "*") <= Count(ctype_mask, "*")
        THEN b
        ELSE IF _match_mask(ctype_mask, ctype)
        THEN [q |-> f.val, ctype |-> ctype, params |-> params,
              match |-> ctype_mask]
        ELSE b

\* BestStep without the tie-break on '*': on equal q the earlier pair stays
BestStep_notiebreak(b, ctype, ctype_mask, params) ==
    LET f == IF <<"q">> \in DOMAIN params
             THEN ParseFloat(params[<<"q">>])
             ELSE [ok |-> TRUE, val |-> Scale]
    IN  IF ~f.ok THEN b
        ELSE IF f.val <= b.q THEN b
        ELSE IF _match_mask(ctype_mask, ctype)
        THEN [q |-> f.val, ctype |-> ctype, params |-> params,
              match |-> ctype_mask]
        ELSE b

BestStep(b, ctype, ctype_mask, params) ==
    LET f == IF <<"q">> \in DOMAIN params
             THEN ParseFloat(params[<<"q">>])
             ELSE [ok |-> TRUE, val |-> Scale]
    IN  IF ~f.ok THEN b
        ELSE IF f.val < b.q THEN b
        ELSE IF b.q = f.val /\ Count(b.match, "*") <= Count(ctype_mask, "*")
        THEN b
        ELSE IF _match_mask(ctype_mask, ctype)
        THEN [q |-> f.val, ctype |-> ctype, params |-> params,
              match |-> ctype_mask]
        ELSE b

RECURSIVE BestInner(_, _, _, _)
BestInner(b, ctype, requested, j) ==
    IF j > Len(requested) THEN b
    ELSE BestInner(BestStep(b, ctype, requested[j].ctype, requested[j].params),
                   ctype, requested, j + 1)

RECURSIVE BestOuter(_, _, _, _)
BestOuter(b, allowed, requested, i) ==
    IF i > Len(allowed) THEN b
    ELSE BestOuter(BestInner(b, allowed[i], requested, 1),
                   allowed, requested, i + 1)

best_match(requested, allowed) ==
    LET split  == quoted_split(requested, ",")
        parsed == [i \in 1..Len(split) |-> parse_ctype(split[i])]
        b      == BestOuter(BestInit, allowed, parsed, 1)
    IN  [ctype |-> b.ctype, params |-> b.params]

(***************************************************************************)
(* template % params, Python's string formatting with a mapping:           *)
(* [kind |-> "ok", val |-> text], or kind "KeyError" (a %(key)s whose key  *)
(* the mapping lacks), or kind "ValueError" (an incomplete or unsupported  *)
(* conversion).  Only the conversions %(key)s and %% are modelled.         *)
(***************************************************************************)
Str(v) == IF v = TrueVal THEN <<"T", "r", "u", "e">> ELSE v

RECURSIVE FormatFrom(_, _, _, _)
FormatFrom(t, params, i, out) ==
    IF i > Len(t) THEN [kind |-> "ok", val |-> out]
    ELSE IF t[i] # "%" THEN FormatFrom(t, params, i + 1, Append(out, t[i]))
    ELSE IF i = Len(t) THEN [kind |-> "ValueError", val |-> NoneVal]
    ELSE IF t[i + 1] = "%" THEN FormatFrom(t, params, i + 2, Append(out, "%"))
    ELSE IF t[i + 1] # "(" THEN [kind |-> "ValueError", val |-> NoneVal]
    ELSE LET rest  == SubSeq(t, i + 2, Len(t))
             close == Find(rest, ")")
             key   == Slice(rest, 0, close)
             conv  == i + 2 + close + 1
         IN  IF close < 0 THEN [kind |-> "ValueError", val |-> NoneVal]
             ELSE IF key \notin DOMAIN params
             THEN [kind |-> "KeyError", val |-> NoneVal]
             ELSE IF conv > Len(t) \/ t[conv] # "s"
             THEN [kind |-> "ValueError", val |-> NoneVal]
             ELSE FormatFrom(t, params, conv + 1, out \o Str(params[key]))

Format(t, params) == FormatFrom(t, params, 1, <<>>)

(***************************************************************************)
(* TypeRule.__call__(params) for rule = [ctype |-> template or NoneVal,    *)
(* version |-> template or NoneVal]: [ctype, version, raised].  A KeyError *)
(* is caught and gives None; any other error of the formatting leaves      *)
(* the method as an exception (raised).                                    *)
(***************************************************************************)
RuleCtype(rule, params) ==
    IF Truthy(rule.ctype) THEN Format(rule.ctype, params)
    ELSE IF <<"_">> \in DOMAIN params
    THEN [kind |-> "ok", val |-> params[<<"_">>]]
    ELSE [kind |-> "KeyError", val |-> NoneVal]

RuleVersion(rule, params) ==
    IF Truthy(rule.version) THEN Format(rule.version, params)
    ELSE [kind |-> "ok", val |-> NoneVal]

TypeRule_call(rule, params) ==
    LET c == RuleCtype(rule, params)
        v == RuleVersion(rule, params)
    IN  [ctype   |-> IF c.kind = "ok" THEN c.val ELSE NoneVal,
         version |-> IF v.kind = "ok" THEN v.val ELSE NoneVal,
         raised  |-> c.kind = "ValueError" \/ v.kind = "ValueError"]

(***************************************************************************)
(* _parse_type_rule(ctype, typespec): the TypeRule built from rule text,   *)
(* as the record [ctype, version] of its two attributes.  The texts of the *)
(* model have no whitespace but the blank.                                 *)
(***************************************************************************)
IsSpace(c) == c = " "

\* typespec.split(): the maximal runs of non-blank characters
RECURSIVE SplitWords(_, _, _, _)
SplitWords(s, i, word, acc) ==
    IF i > Len(s)
    THEN IF word = <<>> THEN acc ELSE Append(acc, word)
    ELSE IF IsSpace(s[i])
    THEN SplitWords(s, i + 1, <<>>,
                    IF word = <<>> THEN acc ELSE Append(acc, word))
    ELSE SplitWords(s, i + 1, Append(word, s[i]), acc)

TagType == <<"t", "y", "p", "e">>
TagVersion == <<"v", "e", "r", "s", "i", "o", "n">>

\* one iteration of the token loop on the dict params
ParseToken(params, token) ==
    LET colon    == Find(token, ":")
        tok_type == IF colon < 0 THEN token ELSE Slice(token, 0, colon)
        tok_val  == IF colon < 0 THEN <<>>
                    ELSE SubSeq(token, colon + 2, Len(token))
    IN  IF tok_val = <<>> THEN params
        ELSE IF tok_type \notin {TagType, TagVersion} THEN params
        ELSE IF \/ Len(tok_val) <= 2
                \/ tok_val[1] \notin {"\"", "'"}
                \/ tok_val[1] # tok_val[Len(tok_val)]
        THEN params
        ELSE DictSet(params, tok_type, SubSeq(tok_val, 2, Len(tok_val) - 1))

RECURSIVE ParseTokens(_, _, _)
ParseTokens(tokens, i, params) ==
    IF i > Len(tokens) THEN params
    ELSE ParseTokens(tokens, i + 1, ParseToken(params, tokens[i]))

\* dict.get(key), None when the key is absent
DictGet(d, k) == IF k \in DOMAIN d THEN d[k] ELSE NoneVal

_parse_type_rule(ctype, typespec) ==
    LET params == ParseTokens(SplitWords(typespec, 1, <<>>, <<>>), 1, EmptyDict)
    IN  [ctype   |-> DictGet(params, TagType),
         version |-> DictGet(params, TagVersion)]

(***************************************************************************)
(* Result: the fields version and ctype, both None when constructed.       *)
(***************************************************************************)
Result_init == [version |-> NoneVal, ctype |-> NoneVal]

\* __nonzero__ true as soon as either field is set
Result_nonzero_either(r) == r.version # NoneVal \/ r.ctype # NoneVal

\* Result.__nonzero__
Result_nonzero(r) == r.version # NoneVal /\ r.ctype # NoneVal

\* set_version without its guard: the last writer wins
set_version_overwrite(r, version) == [r EXCEPT !.version = version]

\* Result.set_version(version)
set_version(r, version) ==
    IF r.version = NoneVal THEN [r EXCEPT !.version = version] ELSE r

\* Result.set_ctype(ctype)
set_ctype(r, ctype) ==
    IF r.ctype = NoneVal THEN [r EXCEPT !.ctype = ctype] ELSE r

(***************************************************************************)
(* _uri_normalize(uri): '/' + SLASH_RE.sub('/', uri).strip('/')            *)
(***************************************************************************)
RECURSIVE CollapseSlashes(_)
CollapseSlashes(s) ==
    IF Len(s) < 2 THEN s
    ELSE IF s[1] = "/" /\ s[2] = "/" THEN CollapseSlashes(Tail(s))
    ELSE <<s[1]>> \o CollapseSlashes(Tail(s))

RECURSIVE StripSlashes(_)
StripSlashes(s) ==
    IF s = <<>> THEN s
    ELSE IF Head(s) = "/" THEN StripSlashes(Tail(s))
    ELSE IF s[Len(s)] = "/" THEN StripSlashes(SubSeq(s, 1, Len(s) - 1))
    ELSE s

\* _uri_normalize without SLASH_RE.sub
_uri_normalize_nocollapse(uri) == <<"/">> \o StripSlashes(uri)

_uri_normalize(uri) == <<"/">> \o StripSlashes(CollapseSlashes(uri))

(***************************************************************************)
(* The strings of the model.                                               *)
(***************************************************************************)
V1 == <<"v", "1">>
V2 == <<"v", "2">>
TypeAA == <<"a", "/", "a">>
TypeAB == <<"a", "/", "b">>
TypeBB == <<"b", "/", "b">>
SufDotA == <<".", "a">>
SufA == <<"a">>
PrefV1 == <<"/", "v", "1">>
PrefV1X == <<"/", "v", "1", "/", "x">>
Q10 == <<";", "q", "=", "1", ".", "0">>
TypeAppJson == <<"a", "p", "p", "/", "j", "s", "o", "n">>
SufJson == <<".", "j", "s", "o", "n">>
PathV1ThingJson ==
    <<"/", "v", "1", "/", "t", "h", "i", "n", "g", ".", "j", "s", "o", "n">>
PathThing == <<"/", "t", "h", "i", "n", "g">>

\* application handles, as the loader returns them; "None" is Python's None
Apps == {"A1", "A2", "F"}
NoApp == "None"

(***************************************************************************)
(* State.                                                                  *)
(*   av_state       "new", "built" (__init__ has returned), "serving" (the *)
(*                  attributes are final) or "ctor_raised"                 *)
(*   conf           the local_conf given to AVersion.__init__              *)
(*   version_app, versions, uris, types, type_keys, formats                *)
(*                  the AVersion attributes; uris is a list of             *)
(*                  <<prefix, version>>, formats the list of               *)
(*                  <<suffix, ctype>> in the dict's items() order and      *)
(*                  type_keys is types.keys() in the dict's order          *)
(*   aliases, overwrite_headers                                            *)
(*                  the configured alias table and header-rewrite flag     *)
(*                  (the configuration keys alias.<A> and                  *)
(*                  overwrite_headers); no statement of aversion.py reads  *)
(*                  either                                                 *)
(*   pc             where the request in flight is: "idle", "uri",         *)
(*                  "ctype", "accept", "call", "done" or "raised"          *)
(*   path_info, script_name, headers, environ                              *)
(*                  the request; headers.ctype and headers.accept are      *)
(*                  NoneVal when the header is absent                      *)
(*   req0           the request as it arrived                              *)
(*   result         the Result of the request in flight                    *)
(*   stages         the stages that have run on result, in order           *)
(*   forwarded      the applications get_response was called with          *)
(*   response       what __call__ returned                                 *)
(*   nreq           requests begun on this instance                        *)
(*   calls          the set_version / set_ctype calls of the Result        *)
(*                  harness, in order                                      *)
(*   pure           the call of the function harness: the function, its    *)
(*                  arguments and, once it has returned, its result        *)
(***************************************************************************)
VARIABLES av_state, conf, version_app, versions, uris, types, type_keys,
          formats, aliases, overwrite_headers, pc, path_info, script_name,
          headers, environ, req0, result, stages, forwarded, response,
          nreq, calls, pure

avVars == <<av_state, conf, version_app, versions, uris, types, type_keys,
            formats, aliases, overwrite_headers>>
reqVars == <<pc, path_info, script_name, headers, environ, req0, result,
             stages, forwarded, response, nreq>>
vars == <<avVars, reqVars, calls, pure>>

NoCall ==
    [fn |-> "none", arg |-> <<>>, parts |-> <<>>, out |-> <<>>, done |-> FALSE]

NoRequest == [path_info |-> <<>>, script_name |-> <<>>,
              headers |-> [ctype |-> NoneVal, accept |-> NoneVal]]

\* the injective sequences over a finite set: the orders a dict may list it in
Orders(S) ==
    {f \in [1..Cardinality(S) -> S] :
        \A i, j \in 1..Cardinality(S) : f[i] = f[j] => i = j}

(***************************************************************************)
(* Configurations given to the constructor.  uris maps raw prefixes to     *)
(* versions, types maps content types to rule text, formats maps suffixes  *)
(* to content types, versions and aliases are the version.<V> and          *)
(* alias.<A> keys and version is the value of the key 'version' (NoApp     *)
(* when the key is absent): get_app is the identity on handles, as the     *)
(* tests' loader is.                                                       *)
(***************************************************************************)
RuleTextV1 ==
    <<"v", "e", "r", "s", "i", "o", "n", ":", "\"", "v", "1", "\"">>

EmptyConf ==
    [version |-> NoApp, versions |-> EmptyDict, aliases |-> EmptyDict,
     uris |-> EmptyDict, types |-> EmptyDict, formats |-> EmptyDict,
     overwrite_headers |-> TRUE]

\* {version: F, version.v1: A1, uri./v1: 'v1', .json: 'app/json',
\*  type.app/json: 'version:"v1"'}
ConfEndToEnd ==
    [EmptyConf EXCEPT !.version = "F", !.versions = (V1 :> "A1"),
                      !.uris = (PrefV1 :> V1),
                      !.formats = (SufJson :> TypeAppJson),
                      !.types = (TypeAppJson :> RuleTextV1)]

Confs ==
    { EmptyConf, ConfEndToEnd,
      [EmptyConf EXCEPT !.version = "F"],
      [EmptyConf EXCEPT !.version = "F", !.versions = (V1 :> "A1")],
      [EmptyConf EXCEPT !.version = "F", !.versions = (V1 :> "A1"),
                        !.aliases = (V2 :> V1),
                        !.overwrite_headers = FALSE],
      [EmptyConf EXCEPT !.version = "F", !.versions = (V1 :> "A1"),
                        !.uris = (PrefV1 :> V1)],
      [EmptyConf EXCEPT !.versions = (V1 :> "A1") @@ (V2 :> "A2"),
                        !.uris = (<<"/", "/", "v", "1", "/">> :> V1)
                                 @@ (PrefV1X :> V2)],
      [EmptyConf EXCEPT !.version = "F", !.types = (TypeAA :> RuleTextV1)],
      [EmptyConf EXCEPT !.version = "F", !.formats = (SufDotA :> TypeAA)],
      [EmptyConf EXCEPT !.version = "F", !.versions = (V1 :> "A1"),
                        !.uris = (PrefV1 :> V1),
                        !.formats = (SufDotA :> TypeAA),
                        !.types = (TypeAA :> RuleTextV1)] }

(***************************************************************************)
(* AVersion.__init__.  The loop body stores the fallback application in    *)
(* the local name version_app (self.version_app keeps None), and the       *)
(* 'type.' and '.' branches assign into the names types and formats, which *)
(* are bound nowhere: a configuration with such a key raises NameError.    *)
(* alias.<A> and overwrite_headers match no branch.                        *)
(***************************************************************************)
InitRaises(c) == DOMAIN c.types # {} \/ DOMAIN c.formats # {}

\* the dict uris = {_uri_normalize(key[4:]): value}, the keys taken in order o
RECURSIVE UrisDict(_, _, _, _)
UrisDict(c, o, i, d) ==
    IF i > Len(o) THEN d
    ELSE UrisDict(c, o, i + 1, DictSet(d, _uri_normalize(o[i]), c.uris[o[i]]))

\* sorted(uris.items(), key=lambda x: len(x[0]), reverse=True): the sort is
\* stable on the dict's own order, which is any order
SortedUris(d) ==
    {s \in [1..Cardinality(DOMAIN d) -> {<<k, d[k]>> : k \in DOMAIN d}] :
        /\ \A i, j \in 1..Cardinality(DOMAIN d) : s[i] = s[j] => i = j
        /\ \A i, j \in 1..Cardinality(DOMAIN d) :
              i < j => Len(s[i][1]) >= Len(s[j][1])}

Construct ==
    /\ av_state = "new"
    /\ \E c \in Confs :
         /\ conf' = c
         /\ aliases' = c.aliases
         /\ overwrite_headers' = c.overwrite_headers
         /\ IF InitRaises(c)
            THEN /\ av_state' = "ctor_raised"
                 /\ UNCHANGED <<version_app, versions, uris, types, type_keys,
                                formats>>
            ELSE /\ av_state' = "built"
                 /\ version_app' = NoApp
                 /\ versions' = c.versions
                 /\ \E o \in Orders(DOMAIN c.uris) :
                       uris' \in SortedUris(UrisDict(c, o, 1, EmptyDict))
                 /\ types' = EmptyDict
                 /\ type_keys' = <<>>
                 /\ formats' = <<>>
    /\ UNCHANGED <<reqVars, calls, pure>>

(***************************************************************************)
(* The attributes of an AVersion built from an empty configuration are     *)
(* then assigned directly, as the tests do (av.uris = [...],               *)
(* av.formats = {...}, av.types = {...}, av.version_app = ...,             *)
(* av.versions = {...}, av.overwrite_headers = False).                     *)
(***************************************************************************)
RuleV1 == [ctype |-> NoneVal, version |-> V1]
RuleEchoV2 == [ctype |-> <<"%", "(", "_", ")", "s">>, version |-> V2]
RuleParamV == [ctype |-> NoneVal, version |-> <<"v", "%", "(", "v", ")", "s">>]
RuleFixAA == [ctype |-> TypeAA, version |-> NoneVal]
RuleFixBB == [ctype |-> TypeBB, version |-> V1]

UrisTables ==
    { <<>>, << <<PrefV1, V1>> >>, << <<PrefV1X, V2>>, <<PrefV1, V1>> >> }

FormatsTables ==
    { <<>>, << <<SufDotA, TypeAA>> >>,
      << <<SufA, TypeAB>>, <<SufDotA, TypeAA>> >> }

TypesTables ==
    { EmptyDict,
      (TypeAA :> RuleV1),
      (TypeAA :> RuleEchoV2) @@ (TypeAB :> RuleParamV),
      (TypeAA :> RuleFixAA) @@ (TypeBB :> RuleFixBB) }

AppTables ==
    { <<EmptyDict, NoApp>>, <<EmptyDict, "F">>, <<(V1 :> "A1"), "F">>,
      <<(V1 :> "A1") @@ (V2 :> "A2"), NoApp>> }

AliasTables == { EmptyDict, (V2 :> V1) }

SetAttrs ==
    /\ av_state = "built"
    /\ conf = EmptyConf
    /\ pc = "idle"
    /\ nreq = 0
    /\ uris' \in UrisTables
    /\ formats' \in FormatsTables
    /\ types' \in TypesTables
    /\ type_keys' \in Orders(DOMAIN types')
    /\ \E a \in AppTables : versions' = a[1] /\ version_app' = a[2]
    /\ aliases' \in AliasTables
    /\ overwrite_headers' \in BOOLEAN
    /\ av_state' = "serving"
    /\ UNCHANGED <<conf, reqVars, calls, pure>>

(***************************************************************************)
(* Requests.                                                               *)
(***************************************************************************)
Paths ==
    { <<"/">>, PrefV1, <<"/", "v", "1", "/", ".", "a">>,
      <<"/", "v", "1", "/", "x", ".", "a">>, <<"/", "v", "1", "0">>,
      <<"/", "x", ".", "a">>, <<"/", "x">>, PathV1ThingJson, PathThing,
      PrefV1X }

ContentTypes ==
    { NoneVal, TypeAA, <<"a", "/", "b", ";", "v", "=", "2">> }

Accepts ==
    { NoneVal, TypeAA, TypeAppJson, <<"*", "/", "*">>,
      <<"a", "/", "*", ";", "q", "=", "0", ".", "5", ",", "b", "/", "b">>,
      <<"a", "/", "b", ";", "v", "=", "3">>,
      <<"b", "/", "b", ";", "q", "=", "x">>,
      <<"a", "/", "a", ";", "q", "=", "0", ".", "2", ",",
        "a", "/", "b", ";", "v", "=", "1", ";", "q", "=", "0", ".", "7">> }

\* the server hands a request to AVersion.__call__, which calls _process:
\* a Result is allocated
BeginRequest ==
    /\ av_state \in {"built", "serving"}
    /\ pc \in {"idle", "done", "raised"}
    /\ nreq < MaxReq
    /\ \E p \in Paths, ct \in ContentTypes, ac \in Accepts :
         /\ path_info' = p
         /\ script_name' = <<>>
         /\ headers' = [ctype |-> ct, accept |-> ac]
         /\ req0' = [path_info |-> p, script_name |-> <<>>,
                     headers |-> [ctype |-> ct, accept |-> ac]]
    /\ environ' = EmptyDict
    /\ result' = Result_init
    /\ stages' = <<>>
    /\ forwarded' = <<>>
    /\ response' = "none"
    /\ nreq' = nreq + 1
    /\ av_state' = "serving"
    /\ pc' = "uri"
    /\ UNCHANGED <<conf, version_app, versions, uris, types, type_keys,
                   formats, aliases, overwrite_headers, calls, pure>>

(***************************************************************************)
(* AVersion._proc_uri.  The prefix loop tests request.path_info against    *)
(* the name uri, which is bound nowhere (the loop binds prefix): its first *)
(* iteration raises NameError, whatever the path.  With an empty table the *)
(* loop body never runs.                                                   *)
(***************************************************************************)
PrefixLoopRaises == uris # <<>>

\* the index of the first suffix-table entry the path ends with, or 0
FirstFormat(path) ==
    IF \E i \in 1..Len(formats) : EndsWith(path, formats[i][1])
    THEN CHOOSE i \in 1..Len(formats) :
           /\ EndsWith(path, formats[i][1])
           /\ \A j \in 1..(i - 1) : ~EndsWith(path, formats[j][1])
    ELSE 0

ProcUri ==
    /\ pc = "uri"
    /\ stages' = Append(stages, "uri")
    /\ IF Result_nonzero(result)
       THEN /\ pc' = "ctype"
            /\ UNCHANGED <<path_info, result, response>>
       ELSE IF PrefixLoopRaises
       THEN /\ pc' = "raised"
            /\ response' = "NameError"
            /\ UNCHANGED <<path_info, result>>
       ELSE LET f == FirstFormat(path_info)
            IN  /\ pc' = "ctype"
                /\ IF f = 0
                   THEN UNCHANGED <<path_info, result>>
                   ELSE /\ result' = set_ctype(result, formats[f][2])
                        /\ path_info' =
                             SubSeq(path_info, 1,
                                    Len(path_info) - Len(formats[f][1]))
                /\ UNCHANGED response
    /\ UNCHANGED <<avVars, script_name, headers, environ, req0, forwarded,
                   nreq, calls, pure>>

(***************************************************************************)
(* AVersion._proc_ctype_header.                                            *)
(***************************************************************************)
ProcCtypeHeader ==
    /\ pc = "ctype"
    /\ stages' = Append(stages, "ctype")
    /\ IF Result_nonzero(result) \/ headers.ctype = NoneVal
       THEN /\ pc' = "accept"
            /\ UNCHANGED <<headers, result, response>>
       ELSE LET parsed == parse_ctype(headers.ctype)
            IN  IF parsed.ctype \notin DOMAIN types
                THEN /\ pc' = "accept"
                     /\ UNCHANGED <<headers, result, response>>
                ELSE LET m == TypeRule_call(types[parsed.ctype], parsed.params)
                     IN  IF m.raised
                         THEN /\ pc' = "raised"
                              /\ response' = "ValueError"
                              /\ UNCHANGED <<headers, result>>
                         ELSE /\ pc' = "accept"
                              /\ headers' =
                                   IF Truthy(m.ctype)
                                   THEN [headers EXCEPT !.ctype = m.ctype]
                                   ELSE headers
                              /\ result' =
                                   IF Truthy(m.version)
                                   THEN set_version(result, m.version)
                                   ELSE result
                              /\ UNCHANGED response
    /\ UNCHANGED <<avVars, path_info, script_name, environ, req0, forwarded,
                   nreq, calls, pure>>

(***************************************************************************)
(* AVersion._proc_accept_header.                                           *)
(***************************************************************************)
\* _proc_accept_header rewriting the Accept header itself, as __call__ does
\* after _process
ProcAcceptHeader_rewrites ==
    /\ pc = "accept"
    /\ stages' = Append(stages, "accept")
    /\ IF Result_nonzero(result) \/ headers.accept = NoneVal
       THEN /\ pc' = "call"
            /\ UNCHANGED <<result, response, headers>>
       ELSE LET best == best_match(headers.accept, type_keys)
            IN  IF ~Truthy(best.ctype)
                THEN /\ pc' = "call"
                     /\ UNCHANGED <<result, response, headers>>
                ELSE LET m == TypeRule_call(types[best.ctype], best.params)
                     IN  IF m.raised
                         THEN /\ pc' = "raised"
                              /\ response' = "ValueError"
                              /\ UNCHANGED <<result, headers>>
                         ELSE /\ pc' = "call"
                              /\ result' =
                                   LET r == IF Truthy(m.ctype)
                                            THEN set_ctype(result, m.ctype)
                                            ELSE result
                                   IN  IF Truthy(m.version)
                                       THEN set_version(r, m.version)
                                       ELSE r
                              /\ headers' =
                                   IF Truthy(m.ctype)
                                   THEN [headers EXCEPT
                                           !.accept = Str(m.ctype) \o Q10]
                                   ELSE headers
                              /\ UNCHANGED response
    /\ UNCHANGED <<avVars, path_info, script_name, environ, req0,
                   forwarded, nreq, calls, pure>>

ProcAcceptHeader ==
    /\ pc = "accept"
    /\ stages' = Append(stages, "accept")
    /\ IF Result_nonzero(result) \/ headers.accept = NoneVal
       THEN /\ pc' = "call"
            /\ UNCHANGED <<result, response>>
       ELSE LET best == best_match(headers.accept, type_keys)
            IN  IF ~Truthy(best.ctype)
                THEN /\ pc' = "call"
                     /\ UNCHANGED <<result, response>>
                ELSE LET m == TypeRule_call(types[best.ctype], best.params)
                     IN  IF m.raised
                         THEN /\ pc' = "raised"
                              /\ response' = "ValueError"
                              /\ UNCHANGED result
                         ELSE /\ pc' = "call"
                              /\ result' =
                                   LET r == IF Truthy(m.ctype)
                                            THEN set_ctype(result, m.ctype)
                                            ELSE result
                                   IN  IF Truthy(m.version)
                                       THEN set_version(r, m.version)
                                       ELSE r
                              /\ UNCHANGED response
    /\ UNCHANGED <<avVars, path_info, script_name, headers, environ, req0,
                   forwarded, nreq, calls, pure>>

(***************************************************************************)
(* AVersion.__call__ after _process has returned: the Accept header is set *)
(* when result.ctype is true, the application is looked up and the request *)
(* is handed to request.get_response(app).                                 *)
(***************************************************************************)
\* self.versions.get(result.version, self.version_app)
SelectApp(version) ==
    IF version \in DOMAIN versions THEN versions[version] ELSE version_app

CallForward ==
    /\ pc = "call"
    /\ headers' =
         IF Truthy(result.ctype)
         THEN [headers EXCEPT !.accept = Str(result.ctype) \o Q10]
         ELSE headers
    /\ forwarded' = Append(forwarded, SelectApp(result.version))
    /\ response' = "get_response"
    /\ pc' = "done"
    /\ UNCHANGED <<avVars, path_info, script_name, environ, req0, result,
                   stages, nreq, calls, pure>>

(***************************************************************************)
(* AVersion._process(request, result=None) called on a serving instance,   *)
(* as the tests and overriding callers do: the three stages run on the     *)
(* Result given, or on a newly allocated one when None is given, and the   *)
(* call has returned when pc is "call".  req0 keeps the request and the    *)
(* Result as the call received them.  The instance is one whose attributes *)
(* were assigned as in SetAttrs.                                           *)
(***************************************************************************)
\* _process calls made on one instance
MaxProcess == 2

ServePaths == {<<"/">>, PrefV1, <<"/", "x", ".", "a">>}

ServeAccepts ==
    {NoneVal, TypeAA, <<"*", "/", "*">>, <<"a", "/", "b", ";", "v", "=", "3">>}

\* the Results given as the result argument (passed is FALSE for None)
GivenResults ==
    {[version |-> v, ctype |-> c] :
        v \in {NoneVal, V1}, c \in {NoneVal, TypeAB}}

\* _process keeping the Result of the call before when None is given
BeginProcess_shared ==
    /\ av_state = "serving"
    /\ pc \in {"idle", "call", "raised"}
    /\ nreq < MaxProcess
    /\ \E p \in ServePaths, ct \in ContentTypes, ac \in ServeAccepts,
          given \in GivenResults, passed \in BOOLEAN :
         LET r == IF passed THEN given ELSE result
         IN  /\ path_info' = p
             /\ script_name' = <<>>
             /\ headers' = [ctype |-> ct, accept |-> ac]
             /\ result' = r
             /\ req0' = [path_info |-> p, script_name |-> <<>>,
                         headers |-> [ctype |-> ct, accept |-> ac],
                         passed |-> passed, result |-> r]
    /\ environ' = EmptyDict
    /\ stages' = <<>>
    /\ forwarded' = <<>>
    /\ response' = "none"
    /\ nreq' = nreq + 1
    /\ pc' = "uri"
    /\ UNCHANGED <<avVars, calls, pure>>

BeginProcess ==
    /\ av_state = "serving"
    /\ pc \in {"idle", "call", "raised"}
    /\ nreq < MaxProcess
    /\ \E p \in ServePaths, ct \in ContentTypes, ac \in ServeAccepts,
          given \in GivenResults, passed \in BOOLEAN :
         LET r == IF passed THEN given ELSE Result_init
         IN  /\ path_info' = p
             /\ script_name' = <<>>
             /\ headers' = [ctype |-> ct, accept |-> ac]
             /\ result' = r
             /\ req0' = [path_info |-> p, script_name |-> <<>>,
                         headers |-> [ctype |-> ct, accept |-> ac],
                         passed |-> passed, result |-> r]
    /\ environ' = EmptyDict
    /\ stages' = <<>>
    /\ forwarded' = <<>>
    /\ response' = "none"
    /\ nreq' = nreq + 1
    /\ pc' = "uri"
    /\ UNCHANGED <<avVars, calls, pure>>

(***************************************************************************)
(* The Result harness: any sequence of set_version and set_ctype calls on  *)
(* one Result, the arguments including None.                               *)
(***************************************************************************)
ResultArgs == {NoneVal, V1, V2, TypeAA}

ResultSetVersion ==
    /\ av_state = "new"
    /\ Len(calls) < MaxCalls
    /\ \E v \in ResultArgs :
         /\ result' = set_version(result, v)
         /\ calls' = Append(calls, <<"set_version", v>>)
    /\ UNCHANGED <<avVars, pc, path_info, script_name, headers, environ,
                   req0, stages, forwarded, response, nreq, pure>>

ResultSetCtype ==
    /\ av_state = "new"
    /\ Len(calls) < MaxCalls
    /\ \E c \in ResultArgs :
         /\ result' = set_ctype(result, c)
         /\ calls' = Append(calls, <<"set_ctype", c>>)
    /\ UNCHANGED <<avVars, pc, path_info, script_name, headers, environ,
                   req0, stages, forwarded, response, nreq, pure>>

(***************************************************************************)
(* The function harness: one call of quoted_split, parse_ctype,            *)
(* best_match, TypeRule.__call__ or _parse_type_rule on an argument drawn  *)
(* from the sets below.  pure.parts keeps the pieces a header or a rule    *)
(* text was joined from.                                                   *)
(***************************************************************************)
\* longest string given to quoted_split and parse_ctype
MaxLen == 5
\* most media ranges in an Accept value given to best_match
MaxRanges == 2
\* most tokens in a rule text given to _parse_type_rule
MaxTokens == 2
\* longest mask and longest content type given to _match_mask
MaxMask == 4
\* longest string given to _uri_normalize
MaxUri == 5

Strings(alphabet, n) == UNION {[1..k -> alphabet] : k \in 0..n}

Lists(S, n) == UNION {[1..k -> S] : k \in 0..n}

\* sep.join(parts)
RECURSIVE Join(_, _)
Join(parts, sep) ==
    IF parts = <<>> THEN <<>>
    ELSE IF Len(parts) = 1 THEN parts[1]
    ELSE parts[1] \o sep \o Join(Tail(parts), sep)

SplitAlphabet == {"a", ";", ",", "\"", "\\"}
SplitSeps == {";", ","}
\* 'a;b;"c;d"' and ',value1,value2 , value 3 ,' with one-letter values
SplitExamples ==
    { <<"a", ";", "b", ";", "\"", "c", ";", "d", "\"">>,
      <<",", "a", ",", "b", " ", ",", " ", "c", " ", ",">> }
CtypeAlphabet == {"a", ";", "=", "\"", "_"}
\* 'application/example;a;b=;c=foo;d="bar";e"=baz"' with one-letter values
CtypeExample ==
    <<"a", "/", "a", ";", "a", ";", "b", "=", ";", "c", "=", "a">>
      \o <<";", "d", "=", "\"", "b", "\"", ";", "e", "\"", "=", "a", "\"">>

Masks == {TypeAA, <<"a", "/", "*">>, <<"*", "/", "*">>, TypeBB}
QSuffixes ==
    { <<>>, <<";", "q", "=", "0">>, <<";", "q", "=", "0", ".", "5">>, <<";", "q", "=", "-", "1">>, <<";", "q", "=", "-", "2">>, <<";", "q", "=", "x">> }
Ranges ==
    {m \o q : m \in Masks, q \in QSuffixes} \cup {<<"a", "/", "a", ";", "v", "=", "1">>}
AllowedLists ==
    { <<>>, <<TypeAA>>, <<TypeAA, TypeAB>>, <<TypeAB, TypeAA>>,
      <<TypeBB, TypeAA>> }

Templates ==
    { NoneVal, <<>>, TypeAA, <<"%", "(", "_", ")", "s">>, <<"v", "%", "(", "v", ")", "s">>,
      <<"c", "%">>, <<"%", "%">> }
RuleParams ==
    { EmptyDict, (<<"_">> :> <<"x", "/", "y">>),
      (<<"_">> :> TypeAA) @@ (<<"v">> :> <<"2">>) }

TokTypeAA == <<"t", "y", "p", "e", ":", "\"", "a", "/", "a", "\"">>
TokTypeSingle == <<"t", "y", "p", "e", ":", "'", "b", "'">>
TokVersionV1 == <<"v", "e", "r", "s", "i", "o", "n", ":", "\"", "v", "1", "\"">>
TokVersionV2 == <<"v", "e", "r", "s", "i", "o", "n", ":", "\"", "v", "2", "\"">>
TokUnquoted == <<"v", "e", "r", "s", "i", "o", "n", ":", "v", "1">>
TokNoValue == <<"v", "e", "r", "s", "i", "o", "n", ":">>
TokNoColon == <<"v", "e", "r", "s", "i", "o", "n">>
TokUnknownTag == <<"b", "o", "g", "u", "s", ":", "\"", "x", "\"">>
TokParam == <<"p", "a", "r", "a", "m", ":", "n", "=", "\"", "v", "\"">>
TokMismatched == <<"t", "y", "p", "e", ":", "\"", "a", "'">>
TokEmptyValue == <<"v", "e", "r", "s", "i", "o", "n", ":", "\"", "\"">>
Tokens ==
    { <<>>, TokTypeAA, TokTypeSingle, TokVersionV1, TokVersionV2,
      TokUnquoted, TokNoValue, TokNoColon, TokUnknownTag, TokParam,
      TokMismatched, TokEmptyValue }

MaskAlphabet == {"a", "*", "/"}
\* the masks and content types of 'a/e' against 'e/a'
MaskExamples ==
    { <<"a", "/", "e">>, <<"*", "/", "e">>, <<"e", "/", "*">>,
      <<"e", "/", "a">> }
MaskCtypeExamples == { <<"a", "/", "e">>, <<"e", "/", "a">> }
UriAlphabet == {"a", "b", "/"}
\* '///foo////bar////baz////' with one-letter segments
UriExample ==
    <<"/", "/", "/", "a", "/", "/", "/", "/", "b", "/", "/", "/", "/">>
      \o <<"c", "/", "/", "/", "/">>

Call(fn, arg, parts) ==
    [fn |-> fn, arg |-> arg, parts |-> parts, out |-> <<>>, done |-> FALSE]

Return(out) == pure' = [pure EXCEPT !.out = out, !.done = TRUE]

ApplyQuotedSplit ==
    /\ pure.fn = "quoted_split" /\ ~pure.done
    /\ Return(quoted_split(pure.arg[1], pure.arg[2]))
    /\ UNCHANGED <<avVars, reqVars, calls>>

ApplyParseCtype ==
    /\ pure.fn = "parse_ctype" /\ ~pure.done
    /\ Return(parse_ctype(pure.arg[1]))
    /\ UNCHANGED <<avVars, reqVars, calls>>

ApplyBestMatch ==
    /\ pure.fn = "best_match" /\ ~pure.done
    /\ Return(best_match(pure.arg[1], pure.arg[2]))
    /\ UNCHANGED <<avVars, reqVars, calls>>

ApplyTypeRule ==
    /\ pure.fn = "TypeRule" /\ ~pure.done
    /\ Return(TypeRule_call(pure.arg[1], pure.arg[2]))
    /\ UNCHANGED <<avVars, reqVars, calls>>

ApplyParseTypeRule ==
    /\ pure.fn = "_parse_type_rule" /\ ~pure.done
    /\ Return(_parse_type_rule(pure.arg[1], pure.arg[2]))
    /\ UNCHANGED <<avVars, reqVars, calls>>

ApplyMatchMask ==
    /\ pure.fn = "_match_mask" /\ ~pure.done
    /\ Return(<<_match_mask(pure.arg[1], pure.arg[2])>>)
    /\ UNCHANGED <<avVars, reqVars, calls>>

ApplyUriNormalize ==
    /\ pure.fn = "_uri_normalize" /\ ~pure.done
    /\ Return(_uri_normalize(pure.arg[1]))
    /\ UNCHANGED <<avVars, reqVars, calls>>

(***************************************************************************)
(* Specifications.                                                         *)
(***************************************************************************)
Init ==
    /\ av_state = "new"
    /\ conf = EmptyConf
    /\ version_app = NoApp
    /\ versions = EmptyDict
    /\ uris = <<>>
    /\ types = EmptyDict
    /\ type_keys = <<>>
    /\ formats = <<>>
    /\ aliases = EmptyDict
    /\ overwrite_headers = TRUE
    /\ pc = "idle"
    /\ path_info = <<>>
    /\ script_name = <<>>
    /\ headers = NoRequest.headers
    /\ environ = EmptyDict
    /\ req0 = NoRequest
    /\ result = Result_init
    /\ stages = <<>>
    /\ forwarded = <<>>
    /\ response = "none"
    /\ nreq = 0
    /\ calls = <<>>
    /\ pure = NoCall

Next ==
    \/ Construct
    \/ SetAttrs
    \/ BeginRequest
    \/ ProcUri
    \/ ProcCtypeHeader
    \/ ProcAcceptHeader
    \/ CallForward

Spec == Init /\ [][Next]_vars

NextResult == ResultSetVersion \/ ResultSetCtype

SpecResult == Init /\ [][NextResult]_vars

InitPure ==
    /\ av_state = "new"
    /\ conf = EmptyConf
    /\ version_app = NoApp
    /\ versions = EmptyDict
    /\ uris = <<>>
    /\ types = EmptyDict
    /\ type_keys = <<>>
    /\ formats = <<>>
    /\ aliases = EmptyDict
    /\ overwrite_headers = TRUE
    /\ pc = "idle"
    /\ path_info = <<>>
    /\ script_name = <<>>
    /\ headers = NoRequest.headers
    /\ environ = EmptyDict
    /\ req0 = NoRequest
    /\ result = Result_init
    /\ stages = <<>>
    /\ forwarded = <<>>
    /\ response = "none"
    /\ nreq = 0
    /\ calls = <<>>
    /\ \/ \E s \in Strings(SplitAlphabet, MaxLen) \cup SplitExamples,
               sep \in SplitSeps :
            pure = Call("quoted_split", <<s, sep>>, <<>>)
       \/ \E s \in Strings(CtypeAlphabet, MaxLen) \cup {CtypeExample} :
            pure = Call("parse_ctype", <<s>>, <<>>)
       \/ \E rs \in Lists(Ranges, MaxRanges), allowed \in AllowedLists :
            pure = Call("best_match", <<Join(rs, <<",">>), allowed>>, rs)
       \/ \E c \in Templates, v \in Templates, params \in RuleParams :
            pure = Call("TypeRule", <<[ctype |-> c, version |-> v], params>>,
                        <<>>)
       \/ \E ts \in Lists(Tokens, MaxTokens) :
            pure = Call("_parse_type_rule", <<TypeAA, Join(ts, <<" ">>)>>, ts)
       \/ \E mask \in Strings(MaskAlphabet, MaxMask) \cup MaskExamples,
             ctype \in Strings(MaskAlphabet, MaxMask) \cup MaskCtypeExamples :
            pure = Call("_match_mask", <<mask, ctype>>, <<>>)
       \/ \E uri \in Strings(UriAlphabet, MaxUri) \cup {UriExample} :
            pure = Call("_uri_normalize", <<uri>>, <<>>)

InitServe ==
    /\ av_state = "serving"
    /\ conf = EmptyConf
    /\ uris \in {<<>>, << <<PrefV1, V1>> >>}
    /\ formats \in {<<>>, << <<SufDotA, TypeAA>> >>}
    /\ \E keys \in {<<>>, <<TypeAA, TypeAB>>, <<TypeBB, TypeAA>>} :
         /\ type_keys = keys
         /\ \E t \in TypesTables :
               types = t /\ DOMAIN t = {keys[i] : i \in 1..Len(keys)}
    /\ versions = (V1 :> "A1") @@ (V2 :> "A2")
    /\ version_app = NoApp
    /\ aliases = EmptyDict
    /\ overwrite_headers = TRUE
    /\ pc = "idle"
    /\ path_info = <<>>
    /\ script_name = <<>>
    /\ headers = NoRequest.headers
    /\ environ = EmptyDict
    /\ req0 = NoRequest
    /\ result = Result_init
    /\ stages = <<>>
    /\ forwarded = <<>>
    /\ response = "none"
    /\ nreq = 0
    /\ calls = <<>>
    /\ pure = NoCall

NextServe ==
    \/ BeginProcess
    \/ ProcUri
    \/ ProcCtypeHeader
    \/ ProcAcceptHeader

SpecServe == InitServe /\ [][NextServe]_vars

NextPure ==
    \/ ApplyQuotedSplit
    \/ ApplyParseCtype
    \/ ApplyBestMatch
    \/ ApplyTypeRule
    \/ ApplyParseTypeRule
    \/ ApplyMatchMask
    \/ ApplyUriNormalize

SpecPure == InitPure /\ [][NextPure]_vars

(***************************************************************************)
(* What the specification says of the URI stage and of handle resolution,  *)
(* for stating the claims.                                                 *)
(***************************************************************************)
\* the first routing-table entry whose prefix is the path or a
\* path-segment prefix of it, or 0
ClaimedPrefixIdx(path) ==
    LET hit(i) == \/ path = uris[i][1]
                  \/ StartsWith(path, uris[i][1] \o <<"/">>)
    IN  IF \E i \in 1..Len(uris) : hit(i)
        THEN CHOOSE i \in 1..Len(uris) :
               hit(i) /\ \A j \in 1..(i - 1) : ~hit(j)
        ELSE 0

ClaimedPrefix(path, script) ==
    LET i == ClaimedPrefixIdx(path)
    IN  IF i = 0
        THEN [version |-> NoneVal, path |-> path, script |-> script]
        ELSE LET rest == SubSeq(path, Len(uris[i][1]) + 1, Len(path))
             IN  [version |-> uris[i][2],
                  path    |-> IF rest = <<>> THEN <<"/">> ELSE rest,
                  script  |-> script \o uris[i][1]]

ClaimedSuffix(path) ==
    LET f == FirstFormat(path)
    IN  IF f = 0
        THEN [ctype |-> NoneVal, path |-> path]
        ELSE [ctype |-> formats[f][2],
              path  |-> SubSeq(path, 1, Len(path) - Len(formats[f][1]))]

\* the version the Content-Type header of the request selects, or None
ClaimedHeaderVersion ==
    IF req0.headers.ctype = NoneVal THEN NoneVal
    ELSE LET p == parse_ctype(req0.headers.ctype)
         IN  IF p.ctype \notin DOMAIN types THEN NoneVal
             ELSE LET v == TypeRule_call(types[p.ctype], p.params).version
                  IN  IF Truthy(v) THEN v ELSE NoneVal

\* alias -> canonical version, then the version table, else the fallback
ClaimedApp(version) ==
    LET canonical == IF version \in DOMAIN aliases
                     THEN aliases[version] ELSE version
    IN  IF canonical \in DOMAIN versions
        THEN versions[canonical] ELSE version_app

ProcessOver == pc \in {"call", "done", "raised"} /\ stages # <<>>

UriStageRan == stages = <<"uri">>

(***************************************************************************)
(* Claims.                                                                 *)
(***************************************************************************)
RECURSIVE FirstWritten(_, _)
FirstWritten(cs, op) ==
    IF cs = <<>> THEN NoneVal
    ELSE IF Head(cs)[1] = op /\ Head(cs)[2] # NoneVal THEN Head(cs)[2]
    ELSE FirstWritten(Tail(cs), op)

\* C1: after any sequence of set_version and set_ctype calls on one Result,
\* version holds the first non-None value set_version was called with (None
\* if there was none), and ctype the first non-None value set_ctype was
\* called with: a later call never changes a field that is set.
C1_FirstWriterWins ==
    /\ result.version = FirstWritten(calls, "set_version")
    /\ result.ctype = FirstWritten(calls, "set_ctype")

\* C1: two set_version calls with different non-None values have been made,
\* and version is the first
C1_Witness ==
    /\ \E i, j \in 1..Len(calls) :
         /\ i < j
         /\ calls[i] = <<"set_version", V1>>
         /\ calls[j] = <<"set_version", V2>>
         /\ \A k \in 1..(i - 1) : calls[k][1] # "set_version"
    /\ result.version = V1

\* C2: when _process is over, the URI stage, the Content-Type-header stage
\* and the Accept-header stage have each run once, in that order; the
\* version of a matching URI prefix is the final version; failing that, the
\* version the Content-Type header selects is the final version; and the
\* content type of a matching URI suffix is the final content type.
C2_StagesInOrder ==
    ProcessOver =>
      LET pre == ClaimedPrefix(req0.path_info, req0.script_name)
          suf == ClaimedSuffix(pre.path)
      IN  /\ stages = <<"uri", "ctype", "accept">>
          /\ pre.version # NoneVal => result.version = pre.version
          /\ (pre.version = NoneVal /\ ClaimedHeaderVersion # NoneVal)
                => result.version = ClaimedHeaderVersion
          /\ suf.ctype # NoneVal => result.ctype = suf.ctype

\* C3: a request whose negotiated version has no application, with no
\* fallback configured, ends in a server-error response, get_response is
\* never called and the headers are those the request arrived with.
C3_NoAppIsServerError ==
    (pc = "done" /\ ClaimedApp(result.version) = NoApp) =>
      /\ response = "HTTPInternalServerError"
      /\ forwarded = <<>>
      /\ headers = req0.headers

\* C4: a finished request was forwarded to exactly one application: that of
\* the negotiated version taken through the alias table, else the fallback.
C4_AliasThenAppThenFallback ==
    pc = "done" => forwarded = <<ClaimedApp(result.version)>>

\* C5: the negotiated content type, and the Accept header written from it,
\* contain no '*' (no type-table name, template or suffix-table value of the
\* model contains one).
C5_NoWildcardCtype ==
    /\ pc \in {"call", "done"} => Count(result.ctype, "*") = 0
    /\ (pc = "done" /\ headers.accept # NoneVal
          /\ headers.accept # req0.headers.accept)
         => Count(headers.accept, "*") = 0

\* C6: the step of __call__ that follows negotiation sets the Accept header
\* to '<ctype>;q=1.0' if a content type was negotiated and overwrite_headers
\* is true, and otherwise leaves the headers as they were.
C6_AcceptRewrittenIffEnabled ==
    [][pc = "call" =>
         IF Truthy(result.ctype) /\ overwrite_headers
         THEN headers' = [headers EXCEPT !.accept = Str(result.ctype) \o Q10]
         ELSE headers' = headers]_vars

\* C7: a forwarded request carries the decision metadata in its context:
\* the config summary and the selected version always, and the response
\* content type, its original and the original Accept value when a content
\* type was negotiated.
C7_MetadataAttached ==
    pc = "done" =>
      /\ {"aversion.config", "aversion.version"} \subseteq DOMAIN environ
      /\ environ["aversion.version"] = result.version
      /\ Truthy(result.ctype) =>
           /\ {"aversion.response_type", "aversion.orig_response_type",
               "aversion.accept"} \subseteq DOMAIN environ
           /\ environ["aversion.response_type"] = result.ctype
           /\ environ["aversion.accept"] = req0.headers.accept

\* C8: with the end-to-end configuration, construction succeeds, the
\* request for /v1/thing.json without headers ends forwarded to A1 with
\* content type app/json, and the request for /thing with Accept: app/json
\* ends forwarded to A1.
C8_EndToEnd ==
    conf = ConfEndToEnd =>
      /\ av_state # "ctor_raised"
      /\ (pc \in {"done", "raised"}
            /\ req0 = [path_info |-> PathV1ThingJson, script_name |-> <<>>,
                       headers |-> [ctype |-> NoneVal, accept |-> NoneVal]])
           => forwarded = <<"A1">> /\ result.ctype = TypeAppJson
      /\ (pc \in {"done", "raised"}
            /\ req0 = [path_info |-> PathThing, script_name |-> <<>>,
                       headers |-> [ctype |-> NoneVal,
                                    accept |-> TypeAppJson]])
           => forwarded = <<"A1">>

\* C9: right after the URI stage has run on a fresh Result, the version is
\* that of the first routing-table entry whose prefix is the path or a
\* path-segment prefix of it, that prefix has moved from the front of the
\* path to the end of the mount prefix, an emptied path is '/', and with no
\* matching entry version, path and mount prefix are as they arrived (the
\* path up to the suffix the same stage removes).
C9_FirstPrefixWins ==
    UriStageRan =>
      LET pre == ClaimedPrefix(req0.path_info, req0.script_name)
      IN  /\ pc = "ctype"
          /\ result.version = pre.version
          /\ script_name = pre.script
          /\ path_info = ClaimedSuffix(pre.path).path

\* C10: right after the URI stage has run on a fresh Result, the content
\* type is that of the first suffix-table entry the prefix-stripped path
\* ends with and that suffix, and no other, is gone from the end of the
\* path; with uris [('/v1', 'v1')], formats {'.a': 'a/a'} and path '/v1/.a'
\* the outcome is version v1, content type a/a and path '/'.
C10_FirstSuffixWins ==
    UriStageRan =>
      LET pre == ClaimedPrefix(req0.path_info, req0.script_name)
          suf == ClaimedSuffix(pre.path)
      IN  /\ pc = "ctype"
          /\ result.ctype = suf.ctype
          /\ path_info = suf.path
          /\ (/\ uris = << <<PrefV1, V1>> >>
              /\ formats = << <<SufDotA, TypeAA>> >>
              /\ req0.path_info = <<"/", "v", "1", "/", ".", "a">>)
               => /\ result.version = V1
                  /\ result.ctype = TypeAA
                  /\ path_info = <<"/">>

\* C11: the Content-Type-header stage, run on a Result that is not yet
\* determined, with the header present and its name in the type table,
\* rewrites the header to the rule's content type only if that is non-empty
\* and overwrite_headers is true, and sets a non-empty rule version
\* first-write on the Result; with the header absent or its name not in the
\* table, Result and headers are unchanged.
C11_CtypeHeaderRewrittenIffEnabled ==
    [][(pc = "ctype" /\ ~Result_nonzero(result)) =>
         IF headers.ctype = NoneVal
            \/ parse_ctype(headers.ctype).ctype \notin DOMAIN types
         THEN headers' = headers /\ result' = result
         ELSE LET parsed == parse_ctype(headers.ctype)
                  m == TypeRule_call(types[parsed.ctype], parsed.params)
              IN  m.raised
                  \/ /\ headers' =
                          IF Truthy(m.ctype) /\ overwrite_headers
                          THEN [headers EXCEPT !.ctype = m.ctype]
                          ELSE headers
                     /\ result' =
                          IF Truthy(m.version)
                          THEN set_version(result, m.version)
                          ELSE result]_vars

\* C12: the Accept-header stage, run on a Result that is not yet determined
\* with the header present, evaluates the rule of best_match's type on the
\* winning pattern's parameters and sets ctype and version first-write from
\* the rule's non-empty outputs, recording the matched type name as
\* orig_ctype when it sets ctype; with the header absent or no match the
\* Result is unchanged.
C12_AcceptStageRecordsOrigCtype ==
    [][(pc = "accept" /\ ~Result_nonzero(result)) =>
         IF headers.accept = NoneVal
            \/ ~Truthy(best_match(headers.accept, type_keys).ctype)
         THEN result' = result
         ELSE LET best == best_match(headers.accept, type_keys)
                  m == TypeRule_call(types[best.ctype], best.params)
                  r == IF Truthy(m.ctype) THEN set_ctype(result, m.ctype)
                       ELSE result
              IN  m.raised
                  \/ /\ result'.ctype = r.ctype
                     /\ result'.version =
                          IF Truthy(m.version)
                          THEN set_version(r, m.version).version
                          ELSE r.version
                     /\ (Truthy(m.ctype) /\ result.ctype = NoneVal) =>
                          /\ "orig_ctype" \in DOMAIN result'
                          /\ result'.orig_ctype = best.ctype]_vars

(***************************************************************************)
(* What the specification says of best_match, for stating C13 and C14: the *)
(* pairs <<i, j>> of an allowed name and a requested pattern, and the      *)
(* ranking among them.                                                     *)
(***************************************************************************)
Called(fn) == pure.fn = fn /\ pure.done

Pattern(j) == parse_ctype(pure.parts[j])

ClaimedQ(j) ==
    IF <<"q">> \in DOMAIN Pattern(j).params
    THEN ParseFloat(Pattern(j).params[<<"q">>])
    ELSE [ok |-> TRUE, val |-> Scale]

\* the pattern mask-matches the name and its q parses as a number
Qualifies(allowed, pr) ==
    /\ ClaimedQ(pr[2]).ok
    /\ _match_mask(Pattern(pr[2]).ctype, allowed[pr[1]])

\* higher q, then fewer '*', then allowed-list order, then header order
Outranks(a, b) ==
    LET qa == ClaimedQ(a[2]).val
        qb == ClaimedQ(b[2]).val
        sa == Count(Pattern(a[2]).ctype, "*")
        sb == Count(Pattern(b[2]).ctype, "*")
    IN  \/ qa > qb
        \/ qa = qb /\ sa < sb
        \/ qa = qb /\ sa = sb /\ a[1] < b[1]
        \/ qa = qb /\ sa = sb /\ a[1] = b[1] /\ a[2] < b[2]

ClaimedBest(allowed, pairs) ==
    IF pairs = {} THEN [ctype |-> <<>>, params |-> EmptyDict]
    ELSE LET w == CHOOSE a \in pairs :
                    \A b \in pairs \ {a} : Outranks(a, b)
         IN  [ctype |-> allowed[w[1]], params |-> Pattern(w[2]).params]

AllPairs(allowed) == (1..Len(allowed)) \X (1..Len(pure.parts))

\* every q of the header that parses as a number is greater than -1
QAboveSeed ==
    \A j \in 1..Len(pure.parts) :
        ClaimedQ(j).ok => ClaimedQ(j).val > -1 * Scale

\* C13: for a header whose parsable q values are all greater than -1,
\* best_match returns the allowed name, with the winning pattern's
\* parameters, of the pair that wins among the pairs whose pattern
\* mask-matches the name and whose q parses as a number (default 1.0):
\* highest q, then fewest '*', then first in allowed-list order, then first
\* in header order; ('', {}) when no pair qualifies.
C13_BestMatchRanking ==
    (Called("best_match") /\ QAboveSeed) =>
      pure.out =
        ClaimedBest(pure.arg[2],
                    {pr \in AllPairs(pure.arg[2]) :
                        Qualifies(pure.arg[2], pr)})

\* C13: 'a/*,a/a' against ['a/b', 'a/a'] has been matched: the pattern
\* without '*' wins over the earlier pair with one
C13_Witness ==
    /\ Called("best_match")
    /\ pure.parts = << <<"a", "/", "*">>, TypeAA >>
    /\ pure.arg[2] = <<TypeAB, TypeAA>>
    /\ pure.out = [ctype |-> TypeAA, params |-> (<<"_">> :> TypeAA)]

\* C13 as stated, for every header: the same ranking among all the pairs
\* whose pattern matches and whose q parses as a number, whatever the number.
C13_AsStated ==
    Called("best_match") =>
      pure.out =
        ClaimedBest(pure.arg[2],
                    {pr \in AllPairs(pure.arg[2]) :
                        Qualifies(pure.arg[2], pr)})

\* the media range's q is absent or parses as a number
GoodQ(range) ==
    LET p == parse_ctype(range)
    IN  <<"q">> \in DOMAIN p.params => ParseFloat(p.params[<<"q">>]).ok

\* C14: best_match on a header returns what it returns on the same header
\* without the media ranges whose q does not parse as a number (the other
\* ranges are ranked as if those were absent), and 'a/a;q=x' against
\* ['a/a'] gives ('', {}).
C14_BadQualitySkipped ==
    Called("best_match") =>
      /\ pure.out =
           best_match(Join(SelectSeq(pure.parts, GoodQ), <<",">>),
                      pure.arg[2])
      /\ (pure.parts = << <<"a", "/", "a", ";", "q", "=", "x">> >>
            /\ pure.arg[2] = <<TypeAA>>)
           => pure.out = [ctype |-> <<>>, params |-> EmptyDict]

\* C14: 'a/a;q=x,*/*;q=0.5' against ['a/a'] has been matched, and the
\* result is that of the well-formed pattern
C14_Witness ==
    /\ Called("best_match")
    /\ pure.parts = << <<"a", "/", "a", ";", "q", "=", "x">>,
                       <<"*", "/", "*", ";", "q", "=", "0", ".", "5">> >>
    /\ pure.arg[2] = <<TypeAA>>
    /\ pure.out.ctype = TypeAA
    /\ pure.out.params[<<"_">>] = <<"*", "/", "*">>

(***************************************************************************)
(* What the specification says of quoted_split, for stating C15 and C16:   *)
(* the quoting mode in which each character is read, the separators that   *)
(* are delimiters and the fields between them.                             *)
(***************************************************************************)
\* the mode in which s[i] is read: "out" of quotes, "in" quotes, or "esc"
\* (in quotes, right after a backslash)
RECURSIVE QuoteMode(_, _)
QuoteMode(s, i) ==
    IF i = 1 THEN "out"
    ELSE LET m == QuoteMode(s, i - 1)
             c == s[i - 1]
         IN  IF m = "esc" THEN "in"
             ELSE IF m = "in"
             THEN IF c = "\\" THEN "esc" ELSE IF c = "\"" THEN "out" ELSE "in"
             ELSE IF c = "\"" THEN "in" ELSE "out"

Delimiters(s, sep) ==
    {i \in 1..Len(s) : s[i] = sep /\ QuoteMode(s, i) = "out"}

\* the text between consecutive delimiters, the ends of the string included
ClaimedFields(s, sep) ==
    LET D    == Delimiters(s, sep)
        k    == Cardinality(D)
        d(n) == IF n = 0 THEN 0
                ELSE IF n = k + 1 THEN Len(s) + 1
                ELSE CHOOSE i \in D : Cardinality({j \in D : j < i}) = n - 1
    IN  [n \in 1..(k + 1) |-> SubSeq(s, d(n - 1) + 1, d(n) - 1)]

Front(fields) == SubSeq(fields, 1, Len(fields) - 1)

\* C15: the fields quoted_split yields are the text between the separators
\* that are read outside double quotes, where a '"' read outside quotes
\* opens a quoted section, a '"' read inside and not escaped closes it, and a
\* backslash inside makes the next character ordinary (a last field that
\* would be empty aside); an unterminated quote makes the rest of the string
\* one field, and 'a;b;"c;d"' split on ';' gives ['a', 'b', '"c;d"'].
C15_SplitOutsideQuotes ==
    Called("quoted_split") =>
      LET s  == pure.arg[1]
          cf == ClaimedFields(s, pure.arg[2])
      IN  /\ pure.out \in {cf, Front(cf)}
          /\ pure.out # cf => cf[Len(cf)] = <<>>
          /\ (\E i \in 1..Len(s) :
                 /\ QuoteMode(s, i) = "out" /\ s[i] = "\""
                 /\ \A j \in (i + 1)..Len(s) : QuoteMode(s, j) # "out")
               => /\ pure.out # <<>>
                  /\ \E i \in 1..Len(s) :
                        /\ QuoteMode(s, i) = "out" /\ s[i] = "\""
                        /\ EndsWith(pure.out[Len(pure.out)],
                                    SubSeq(s, i, Len(s)))
          /\ (s = <<"a", ";", "b", ";", "\"", "c", ";", "d", "\"">>
                /\ pure.arg[2] = ";")
               => pure.out = << <<"a">>, <<"b">>, <<"\"", "c", ";", "d", "\"">> >>

\* C15: 'a;b;"c;d"' has been split on ';' into three fields
C15_Witness ==
    /\ Called("quoted_split")
    /\ pure.arg = <<<<"a", ";", "b", ";", "\"", "c", ";", "d", "\"">>, ";">>
    /\ Len(pure.out) = 3
    /\ pure.out[3] = <<"\"", "c", ";", "d", "\"">>

\* C16: a non-empty string with k separators outside quotes yields k + 1
\* fields, or k when its last character is such a separator (nothing is
\* yielded after the last separator when nothing follows it), and the first
\* field is empty when the string starts with the separator.
C16_FieldCount ==
    (Called("quoted_split") /\ pure.arg[1] # <<>>) =>
      LET s == pure.arg[1]
          D == Delimiters(s, pure.arg[2])
      IN  /\ Len(pure.out) =
               IF Len(s) \in D THEN Cardinality(D) ELSE Cardinality(D) + 1
          /\ s[1] = pure.arg[2] => pure.out[1] = <<>>

\* C16: ';a;' has been split on ';' into an empty field and 'a'
C16_Witness ==
    /\ Called("quoted_split")
    /\ pure.arg = << <<";", "a", ";">>, ";" >>
    /\ pure.out = << <<>>, <<"a">> >>

\* C16 as stated: a non-empty string with k separators outside quotes yields
\* k + 1 fields, the last one even when empty, and the first field is empty
\* when the string starts with the separator.
C16_AsStated ==
    (Called("quoted_split") /\ pure.arg[1] # <<>>) =>
      LET s == pure.arg[1]
          D == Delimiters(s, pure.arg[2])
      IN  /\ Len(pure.out) = Cardinality(D) + 1
          /\ s[1] = pure.arg[2] => pure.out[1] = <<>>

\* C17: parse_ctype returns as name the text before the first ';' outside
\* quotes; for a non-empty input the returned map has the key '_' with that
\* name as its value, whatever segments follow; for the empty input it
\* returns ('', {}).
C17_UnderscoreIsName ==
    Called("parse_ctype") =>
      LET s == pure.arg[1]
      IN  /\ pure.out.ctype = ClaimedFields(s, ";")[1]
          /\ s # <<>> =>
               /\ <<"_">> \in DOMAIN pure.out.params
               /\ pure.out.params[<<"_">>] = pure.out.ctype
          /\ s = <<>> => pure.out = [ctype |-> <<>>, params |-> EmptyDict]

(***************************************************************************)
(* What the specification says of a parameter segment, for stating C18.    *)
(***************************************************************************)
Positions(seg, c) == {i \in 1..Len(seg) : seg[i] = c}

Min(S) == CHOOSE i \in S : \A j \in S : i <= j

QuotedValue(v) == v # <<>> /\ v[1] = "\"" /\ v[Len(v)] = "\""

\* the leading and the trailing '"' removed; a lone '"' becomes empty
ClaimedUnquote(v) ==
    IF QuotedValue(v) THEN SubSeq(v, 2, Len(v) - 1) ELSE v

\* <<key, value>> of a segment: split at the first '=' when first names a
\* position of the segment, else the whole segment as a flag
ClaimedPair(seg, first) ==
    IF first \in 1..Len(seg)
    THEN <<SubSeq(seg, 1, first - 1),
           ClaimedUnquote(SubSeq(seg, first + 1, Len(seg)))>>
    ELSE <<seg, TrueVal>>

\* the position of the first '=' if it comes before every '"' and from
\* position lowest on, else 0
SplitAt(seg, lowest) ==
    LET E == Positions(seg, "=")
    IN  IF E # {} /\ Min(E) >= lowest
           /\ \A q \in Positions(seg, "\"") : q > Min(E)
        THEN Min(E) ELSE 0

RECURSIVE ClaimedParams(_, _, _, _)
ClaimedParams(segs, i, lowest, d) ==
    IF i > Len(segs) THEN d
    ELSE LET kv == ClaimedPair(segs[i], SplitAt(segs[i], lowest))
         IN  ClaimedParams(segs, i + 1, lowest, DictSet(d, kv[1], kv[2]))

\* C18: the parameter map is built from the segments after the first, in
\* order: a segment in which an '=' occurs, not as its first character,
\* before any '"' gives the key before the first '=' and the value after it
\* with its leading and trailing '"' removed when it starts and ends with
\* '"' (a lone '"' becomes empty, nothing else is interpreted); every other
\* segment is a key with the value True.
C18_KeyValueOrFlag ==
    (Called("parse_ctype") /\ pure.arg[1] # <<>>) =>
      LET segs == quoted_split(pure.arg[1], ";")
      IN  pure.out.params =
            ClaimedParams(segs, 2, 2, DictSet(EmptyDict, <<"_">>, segs[1]))

\* C18: the example with a flag, an empty value, a plain value, a quoted
\* value and a quote before the '=' has been parsed
C18_Witness ==
    /\ Called("parse_ctype")
    /\ pure.arg[1] = CtypeExample
    /\ pure.out.params[<<"a">>] = TrueVal
    /\ pure.out.params[<<"b">>] = <<>>
    /\ pure.out.params[<<"c">>] = <<"a">>
    /\ pure.out.params[<<"d">>] = <<"b">>
    /\ pure.out.params[<<"e", "\"", "=", "a", "\"">>] = TrueVal

\* C18 as stated: a segment in which an '=' occurs before any '"', the
\* first character included, gives key and value, and a value that starts
\* and ends with '"' loses exactly two characters.
C18_AsStated ==
    (Called("parse_ctype") /\ pure.arg[1] # <<>>) =>
      LET segs == quoted_split(pure.arg[1], ";")
      IN  /\ pure.out.params =
               ClaimedParams(segs, 2, 1, DictSet(EmptyDict, <<"_">>, segs[1]))
          /\ \A i \in 2..Len(segs) :
                LET first == SplitAt(segs[i], 1)
                    v     == SubSeq(segs[i], first + 1, Len(segs[i]))
                IN  (first > 0 /\ QuotedValue(v)) => Len(v) >= 2

\* C19: evaluating a TypeRule raises nothing; ctype is the ctype template
\* formatted with the parameters when a template is given, else
\* params['_'], version the version template formatted when given, else
\* None; a field whose template names a key the parameters lack is None and
\* the other is computed as usual; the rule's named parameter templates are
\* evaluated the same way into a third output; TypeRule(None, None) on
\* {'_': 'x/y'} gives ('x/y', None).
C19_TypeRuleNeverRaises ==
    Called("TypeRule") =>
      LET rule   == pure.arg[1]
          params == pure.arg[2]
          field(t, default) ==
              IF ~Truthy(t) THEN default
              ELSE IF Format(t, params).kind = "ok" THEN Format(t, params).val
              ELSE NoneVal
      IN  /\ ~pure.out.raised
          /\ pure.out.ctype = field(rule.ctype, DictGet(params, <<"_">>))
          /\ pure.out.version = field(rule.version, NoneVal)
          /\ "params" \in DOMAIN pure.out
          /\ (rule = [ctype |-> NoneVal, version |-> NoneVal]
                /\ params = (<<"_">> :> <<"x", "/", "y">>))
               => /\ pure.out.ctype = <<"x", "/", "y">>
                  /\ pure.out.version = NoneVal

(***************************************************************************)
(* What the specification says of rule text, for stating C20.              *)
(***************************************************************************)
\* the value of a token of the form prefix"value", or None
TokenValue(token, prefix) ==
    IF /\ StartsWith(token, prefix \o <<"\"">>)
       /\ Len(token) > Len(prefix) + 2
       /\ token[Len(token)] = "\""
    THEN SubSeq(token, Len(prefix) + 2, Len(token) - 1)
    ELSE NoneVal

\* the value of the last token of that form, or None
RECURSIVE LastValue(_, _)
LastValue(tokens, prefix) ==
    IF tokens = <<>> THEN NoneVal
    ELSE IF TokenValue(tokens[Len(tokens)], prefix) # NoneVal
    THEN TokenValue(tokens[Len(tokens)], prefix)
    ELSE LastValue(Front(tokens), prefix)

\* the tokens whose value is quoted otherwise than with '"', or is empty
OddlyQuoted == {TokTypeSingle, TokEmptyValue}

\* C20: the rule parsed from whitespace-separated tokens (none of them with a
\* single-quoted or an empty value) has as ctype the value of the last
\* type:"value" token, as version that of the last version:"value" token,
\* None where there is no such token, whatever other tokens the text holds,
\* and as named-parameter template n the value of the last param:n="value"
\* token.
C20_RuleTextGrammar ==
    (Called("_parse_type_rule")
       /\ \A i \in 1..Len(pure.parts) : pure.parts[i] \notin OddlyQuoted) =>
      /\ pure.out.ctype = LastValue(pure.parts, <<"t", "y", "p", "e", ":">>)
      /\ pure.out.version =
           LastValue(pure.parts, <<"v", "e", "r", "s", "i", "o", "n", ":">>)
      /\ LastValue(pure.parts, <<"p", "a", "r", "a", "m", ":", "n", "=">>)
           # NoneVal =>
             /\ "params" \in DOMAIN pure.out
             /\ <<"n">> \in DOMAIN pure.out.params
             /\ pure.out.params[<<"n">>] =
                  LastValue(pure.parts,
                            <<"p", "a", "r", "a", "m", ":", "n", "=">>)

\* C21: constructing AVersion from a configuration raises nothing, and when
\* __init__ has returned the fallback application is the resolver's result
\* for the key 'version' (None without the key), the version table holds
\* the version.<V> applications, the routing table the pairs
\* (normalized prefix, version) of the uri.<P> keys, the type table the
\* parsed rule of every type.<CT> key and the suffix table the .<SUFFIX>
\* keys.
C21_ConstructionFillsTables ==
    /\ av_state # "ctor_raised"
    /\ av_state = "built" =>
         /\ version_app = conf.version
         /\ versions = conf.versions
         /\ {uris[i] : i \in 1..Len(uris)} =
              {<<_uri_normalize(p), conf.uris[p]>> : p \in DOMAIN conf.uris}
         /\ DOMAIN types = DOMAIN conf.types
         /\ \A ct \in DOMAIN types :
               types[ct] = _parse_type_rule(ct, conf.types[ct])
         /\ {formats[i] : i \in 1..Len(formats)} =
              {<<f, conf.formats[f]>> : f \in DOMAIN conf.formats}

(***************************************************************************)
(* The outcome of _process as a function of the tables and of the call's   *)
(* arguments alone, for stating C22: the Result after each stage and       *)
(* whether the stage raised.                                               *)
(***************************************************************************)
AfterUri(r, path) ==
    IF Result_nonzero(r) THEN [result |-> r, raised |-> FALSE]
    ELSE IF uris # <<>> THEN [result |-> r, raised |-> TRUE]
    ELSE LET f == FirstFormat(path)
         IN  [result |-> IF f = 0 THEN r ELSE set_ctype(r, formats[f][2]),
              raised |-> FALSE]

AfterRule(r, rule, params, with_ctype) ==
    LET m  == TypeRule_call(rule, params)
        r1 == IF with_ctype /\ Truthy(m.ctype) THEN set_ctype(r, m.ctype)
              ELSE r
    IN  IF m.raised THEN [result |-> r, raised |-> TRUE]
        ELSE [result |-> IF Truthy(m.version)
                         THEN set_version(r1, m.version) ELSE r1,
              raised |-> FALSE]

AfterCtype(r, header) ==
    IF Result_nonzero(r) \/ header = NoneVal
       \/ parse_ctype(header).ctype \notin DOMAIN types
    THEN [result |-> r, raised |-> FALSE]
    ELSE AfterRule(r, types[parse_ctype(header).ctype],
                   parse_ctype(header).params, FALSE)

AfterAccept(r, header) ==
    IF Result_nonzero(r) \/ header = NoneVal
       \/ ~Truthy(best_match(header, type_keys).ctype)
    THEN [result |-> r, raised |-> FALSE]
    ELSE AfterRule(r, types[best_match(header, type_keys).ctype],
                   best_match(header, type_keys).params, TRUE)

Negotiated(rq) ==
    LET u == AfterUri(rq.result, rq.path_info)
        c == IF u.raised THEN u ELSE AfterCtype(u.result, rq.headers.ctype)
    IN  IF c.raised THEN c ELSE AfterAccept(c.result, rq.headers.accept)

Tables == <<version_app, versions, uris, types, type_keys, formats>>

SkippedStep ==
    /\ UNCHANGED <<result, path_info, script_name, headers, environ>>
    /\ pc' # "raised"

\* a step in which the stage at pc has applied its rules to the Result
RanStep ==
    /\ (pc = "uri" /\ uris # <<>>) => pc' = "raised"
    /\ (pc = "uri" /\ uris = <<>> /\ FirstFormat(path_info) # 0) =>
         LET f == FirstFormat(path_info)
         IN  /\ result' = set_ctype(result, formats[f][2])
             /\ path_info' # path_info
    /\ (pc = "ctype" /\ headers.ctype # NoneVal
          /\ parse_ctype(headers.ctype).ctype \in DOMAIN types) =>
         LET p == parse_ctype(headers.ctype)
             a == AfterRule(result, types[p.ctype], p.params, FALSE)
         IN  result' = a.result /\ (pc' = "raised") = a.raised
    /\ (pc = "accept" /\ headers.accept # NoneVal
          /\ Truthy(best_match(headers.accept, type_keys).ctype)) =>
         LET b == best_match(headers.accept, type_keys)
             a == AfterRule(result, types[b.ctype], b.params, TRUE)
         IN  result' = a.result /\ (pc' = "raised") = a.raised

\* C23: a stage that receives a Result with version and ctype both set
\* changes neither the Result, the path, the mount prefix, a header nor the
\* request context, and raises nothing; a stage that receives a Result with
\* at most one of them set is not skipped: the URI stage consults the
\* routing table and, past it, applies the matching suffix; the
\* Content-Type-header stage and the Accept-header stage apply the rule their
\* header selects.
C23_SkippedIffDetermined ==
    [][(pc \in {"uri", "ctype", "accept"}) =>
         IF result.version # NoneVal /\ result.ctype # NoneVal
         THEN SkippedStep
         ELSE RanStep]_vars

\* C23: the URI stage has been skipped on a determined Result: the routing
\* table was not consulted and the path keeps a suffix of the suffix table
C23_Witness ==
    /\ stages = <<"uri">>
    /\ pc = "ctype"
    /\ req0.result = [version |-> V1, ctype |-> TypeAB]
    /\ formats = << <<SufDotA, TypeAA>> >>
    /\ uris # <<>>
    /\ path_info = <<"/", "x", ".", "a">>
    /\ result = req0.result

\* the routing-table entries whose prefix is the path or a path-segment
\* prefix of it
MatchingEntries(path) ==
    {i \in 1..Len(uris) :
        \/ path = uris[i][1]
        \/ StartsWith(path, uris[i][1] \o <<"/">>)}

\* C24: the routing table lists its pairs in non-increasing order of prefix
\* length, and right after the URI stage has run on a new Result for a path
\* that several prefixes match, the version is that of the longest of them.
C24_LongestPrefixSelected ==
    /\ \A i, j \in 1..Len(uris) :
          i < j => Len(uris[i][1]) >= Len(uris[j][1])
    /\ (UriStageRan /\ Cardinality(MatchingEntries(req0.path_info)) > 1) =>
         \E i \in MatchingEntries(req0.path_info) :
            /\ \A j \in MatchingEntries(req0.path_info) :
                  Len(uris[i][1]) >= Len(uris[j][1])
            /\ result.version = uris[i][2]

\* the major component of a content type: the text before its first '/',
\* the whole of it when it has none
MajorOf(ctype) ==
    IF \E i \in 1..Len(ctype) : ctype[i] = "/"
    THEN LET first == CHOOSE i \in 1..Len(ctype) :
                         /\ ctype[i] = "/"
                         /\ \A j \in 1..(i - 1) : ctype[j] # "/"
         IN  SubSeq(ctype, 1, first - 1)
    ELSE ctype

HasStar(s) == \E i \in 1..Len(s) : s[i] = "*"

MatchMaskDone == pure.fn = "_match_mask" /\ pure.done

\* C25 as stated: a mask 'type/*' matches only when its type has no '*'
C25_AsStated ==
    MatchMaskDone =>
      LET mask  == pure.arg[1]
          ctype == pure.arg[2]
          type  == SubSeq(mask, 1, Len(mask) - 2)
      IN  pure.out[1] <=>
            \/ ~HasStar(mask) /\ mask = ctype
            \/ mask = <<"*", "/", "*">>
            \/ /\ Len(mask) >= 2
               /\ SubSeq(mask, Len(mask) - 1, Len(mask)) = <<"/", "*">>
               /\ ~HasStar(type)
               /\ type = MajorOf(ctype)

\* C25: _match_mask(mask, ctype) is true exactly when the mask has no '*' and
\* equals ctype, or the mask is '*/*', or the mask ends with '/*' and the text
\* before that ending equals the major component of ctype (the text before its
\* first '/'); every other mask with a '*' matches nothing.
C25_MaskMatch ==
    MatchMaskDone =>
      LET mask  == pure.arg[1]
          ctype == pure.arg[2]
          type  == SubSeq(mask, 1, Len(mask) - 2)
      IN  pure.out[1] <=>
            \/ ~HasStar(mask) /\ mask = ctype
            \/ mask = <<"*", "/", "*">>
            \/ /\ Len(mask) >= 2
               /\ SubSeq(mask, Len(mask) - 1, Len(mask)) = <<"/", "*">>
               /\ type = MajorOf(ctype)

C25_Witness ==
    /\ MatchMaskDone
    /\ pure.arg = << <<"*", "/", "e">>, <<"a", "/", "e">> >>
    /\ pure.out = <<FALSE>>

\* the non-empty pieces of s between its slashes, in order
RECURSIVE Segments(_, _)
Segments(s, cur) ==
    IF s = <<>> THEN (IF cur = <<>> THEN <<>> ELSE <<cur>>)
    ELSE IF Head(s) = "/"
         THEN (IF cur = <<>> THEN <<>> ELSE <<cur>>) \o Segments(Tail(s), <<>>)
         ELSE Segments(Tail(s), Append(cur, Head(s)))

UriNormalizeDone == pure.fn = "_uri_normalize" /\ pure.done

NoSlashRun(s) == \A i \in 1..(Len(s) - 1) : ~(s[i] = "/" /\ s[i + 1] = "/")

\* C26 as stated: the normalized string never ends with '/'
C26_AsStated ==
    UriNormalizeDone =>
      /\ NoSlashRun(pure.out)
      /\ Len(pure.out) >= 1 /\ pure.out[1] = "/"
      /\ pure.out[Len(pure.out)] # "/"

\* C26: _uri_normalize returns '/' followed by the non-empty segments of the
\* input joined by single slashes: it has no run of slashes, begins with
\* exactly one '/', and does not end with '/' unless the input has no segment
\* at all, in which case it is '/' alone.
C26_Normalized ==
    UriNormalizeDone =>
      LET segs == Segments(pure.arg[1], <<>>)
      IN  /\ pure.out = <<"/">> \o Join(segs, <<"/">>)
          /\ NoSlashRun(pure.out)
          /\ pure.out[1] = "/"
          /\ IF segs = <<>> THEN pure.out = <<"/">>
             ELSE pure.out[Len(pure.out)] # "/"

C26_Witness ==
    /\ UriNormalizeDone
    /\ pure.arg = <<UriExample>>
    /\ pure.out = <<"/", "a", "/", "b", "/", "c">>

\* C27: each stage touches only its own part of the request: the URI stage
\* leaves every request header as it is; the Content-Type-header stage leaves
\* the path, the mount prefix, the Accept header and Result.ctype as they
\* are; the Accept-header stage leaves every request header, the path and
\* the mount prefix as they are.
C27_StagesKeepToTheirPart ==
    [][/\ (pc = "uri") => UNCHANGED headers
       /\ (pc = "ctype") =>
            /\ UNCHANGED <<path_info, script_name>>
            /\ headers'.accept = headers.accept
            /\ result'.ctype = result.ctype
       /\ (pc = "accept") =>
            UNCHANGED <<headers, path_info, script_name>>]_vars

\* _process has returned with the suffix taken off the path by the URI
\* stage, the Content-Type header rewritten and the version set by the
\* Content-Type-header stage, and the content type set by the Accept-header
\* stage, the Accept header being the one received
C27_Witness ==
    /\ pc = "call"
    /\ stages = <<"uri", "ctype", "accept">>
    /\ path_info # req0.path_info
    /\ headers.ctype # req0.headers.ctype
    /\ headers.accept = req0.headers.accept
    /\ headers.accept # NoneVal
    /\ req0.result = Result_init
    /\ result.version # NoneVal
    /\ result.ctype # NoneVal

=============================================================================
